---- MODULE Spec2Model ----
(***************************************************************************)
(* Model of the consistent-subsetting layer of its-data:                   *)
(*   data_utils/default_pipelines/data.py  (Target_Data, BoW_Data,         *)
(*       subset_data_points, subset_categories, subset_words)              *)
(*   data_utils/default_pipelines/flat_classification.py                   *)
(*       (Target_Data named tuple, subset_target_categories)               *)
(*                                                                         *)
(* Python objects live in a heap (object id -> attribute record); numpy    *)
(* arrays and lists are values.  A 2-D array is [cols, rows]: its shape is *)
(* (Len(rows), cols).  Python indices are 0-based integers, negative ones  *)
(* count from the end, an index outside -n..n-1 raises IndexError.         *)
(***************************************************************************)
EXTENDS Integers, Sequences, FiniteSets, TLC

VARIABLES heap, cur, last, flat, rt, pipe, cached_uris, net, fs

vars == <<heap, cur, last, flat, rt, pipe, cached_uris, net, fs>>

\* longest index list a caller passes
MaxLen == 2
\* longest sequence of subsetting calls on one record
MaxOps == 2

-----------------------------------------------------------------------------
(* Python / numpy indexing *)

\* an index numpy and list.__getitem__ accept for an axis of length n
PyIndexOk(i, n) == i >= -n /\ i < n

\* the 0-based position an accepted index denotes
PyIndex(i, n) == IF i < 0 THEN i + n ELSE i

\* mutation: the index taken as 1-based, wrapping at the end
GetItem_off_by_one(seq, i) == seq[((PyIndex(i, Len(seq)) + 1) % Len(seq)) + 1]

\* seq[i] of Python, on a TLA+ sequence
GetItem(seq, i) == seq[PyIndex(i, Len(seq)) + 1]

\* mutation: the indices used as a mask: kept positions in their stored order
Take_as_mask(val, indices) ==
    LET keep == {p \in 1..Len(val) : \E k \in 1..Len(indices) :
                    PyIndex(indices[k], Len(val)) + 1 = p}
        F[i \in 0..Len(val)] ==
            IF i = 0 THEN <<>>
            ELSE IF i \in keep THEN Append(F[i - 1], val[i]) ELSE F[i - 1]
    IN  F[Len(val)]

\* val[indices] on a 1-D array, [val[int(index)] for index in indices] on a list
Take(val, indices) == [k \in 1..Len(indices) |-> GetItem(val, indices[k])]

\* val[indices] on a 2-D array: rows picked, the column count kept
TakeRows(m, indices) == [cols |-> m.cols, rows |-> Take(m.rows, indices)]

\* val[:, indices] on a 2-D array
TakeCols(m, indices) ==
    [cols |-> Len(indices),
     rows |-> [r \in 1..Len(m.rows) |-> [k \in 1..Len(indices) |->
                  m.rows[r][PyIndex(indices[k], m.cols) + 1]]]]

\* mutation: a repeated index is refused as well
AllOk_unique(indices, n) ==
    /\ \A k \in 1..Len(indices) : PyIndexOk(indices[k], n)
    /\ \A j, k \in 1..Len(indices) : j # k => indices[j] # indices[k]

\* whether numpy accepts every index of the list for an axis of length n
AllOk(indices, n) == \A k \in 1..Len(indices) : PyIndexOk(indices[k], n)

\* attributes held as 2-D numpy arrays
MatrixAttrs == {"arr", "bows"}

\* length of the first axis of an attribute value
Len0(key, val) == IF key \in MatrixAttrs THEN Len(val.rows) ELSE Len(val)

-----------------------------------------------------------------------------
(* Record classes: the field classification __post_init__ installs *)

\* mutation: uris classified as a document-indexed field
Target_Data_uris_1d(arr, in_test_set, uris, labels) ==
    [cls |-> "Target_Data",
     arr |-> arr, in_test_set |-> in_test_set, uris |-> uris, labels |-> labels,
     nested_data_fields |-> {},
     category_fields |-> {"labels"},
     fields_1d |-> {"in_test_set", "uris"},
     fields_2d |-> {"arr"}]

Target_Data(arr, in_test_set, uris, labels) ==
    [cls |-> "Target_Data",
     arr |-> arr, in_test_set |-> in_test_set, uris |-> uris, labels |-> labels,
     nested_data_fields |-> {},
     category_fields |-> {"uris", "labels"},
     fields_1d |-> {"in_test_set"},
     fields_2d |-> {"arr"}]

BoW_Data(raw_texts, ids, redaktion_arr, target_data, processed_texts, bows, id_to_word) ==
    [cls |-> "BoW_Data",
     raw_texts |-> raw_texts, ids |-> ids, redaktion_arr |-> redaktion_arr,
     target_data |-> target_data, processed_texts |-> processed_texts,
     bows |-> bows, id_to_word |-> id_to_word,
     nested_data_fields |-> {"target_data"},
     category_fields |-> {},
     fields_1d |-> {"raw_texts", "ids", "redaktion_arr", "processed_texts", "bows"},
     fields_2d |-> {}]

-----------------------------------------------------------------------------
(* Heap *)

\* object ids: the argument graph of a call and the objects the call creates
TargetOid == [t1 |-> "arg_t1", t2 |-> "arg_t2"]
Fresh(o) == CASE o = "arg" -> "res"
              [] o = "arg_t1" -> "res_t1"
              [] o = "arg_t2" -> "res_t2"
              [] OTHER -> "res"

\* the value of a composite record: nested target records inlined
DeepValue(h, o) ==
    [h[o] EXCEPT !.target_data = [n \in DOMAIN h[o].target_data |-> h[h[o].target_data[n]]]]

\* a composite record value laid out as the argument graph of a call
Store(v) ==
    LET names == DOMAIN v.target_data
    IN  [o \in {"arg"} \cup {TargetOid[n] : n \in names} |->
            IF o = "arg"
            THEN [v EXCEPT !.target_data = [n \in names |-> TargetOid[n]]]
            ELSE v.target_data[CHOOSE n \in names : TargetOid[n] = o]]

-----------------------------------------------------------------------------
(* The subsetting engine.  Every operation takes the heap and the argument's
   object id and returns [heap, ret, status]: the heap after the call, the
   object id returned, and "ok" or the exception raised (then ret is the
   argument and the heap is the caller's). *)

Raise(h, obj, exc) == [heap |-> h, ret |-> obj, status |-> exc]

\* mutation: setattr on the argument itself, no copy
copy_in_place(h, obj, kwargs) ==
    [heap |-> [o \in DOMAIN h |->
                 IF o = obj
                 THEN [k \in DOMAIN h[obj] |->
                          IF k \in DOMAIN kwargs THEN kwargs[k] ELSE h[obj][k]]
                 ELSE h[o]],
     ret |-> obj,
     status |-> "ok"]

\* obj = copy(_obj); setattr(obj, key, value) for each keyword; return obj
copy_with_changed_values(h, obj, kwargs) ==
    LET new == Fresh(obj)
    IN  [heap |-> [o \in DOMAIN h \cup {new} |->
                     IF o = new
                     THEN [k \in DOMAIN h[obj] |->
                              IF k \in DOMAIN kwargs THEN kwargs[k] ELSE h[obj][k]]
                     ELSE h[o]],
         ret |-> new,
         status |-> "ok"]

\* the inner function of subset_data_points
subset_arr_or_list(key, val, indices) ==
    IF key \in MatrixAttrs THEN TakeRows(val, indices) ELSE Take(val, indices)

\* mutation: the 2-D fields are forgotten
changed_keys_1d_only(data) == data.fields_1d

\* the fields subset_data_points rewrites itself
changed_keys(data) == data.fields_1d \cup data.fields_2d

RECURSIVE subset_data_points(_, _, _)
RECURSIVE subset_nested(_, _, _, _, _)

\* the dict comprehension over data._nested_data_fields: every nested record
\* is subset with the same indices; todo holds the <<key, nested_key>> pairs
subset_nested(h, data, todo, indices, refs) ==
    IF todo = {}
    THEN [heap |-> h, refs |-> refs, status |-> "ok"]
    ELSE LET p == CHOOSE q \in todo : TRUE
             r == subset_data_points(h, data[p[1]][p[2]], indices)
         IN  IF r.status # "ok"
             THEN [heap |-> h, refs |-> refs, status |-> r.status]
             ELSE subset_nested(r.heap, data, todo \ {p}, indices, refs @@ (p :> r.ret))

subset_data_points(h, obj, indices) ==
    LET data == h[obj]
        keys == changed_keys(data)
        changed_values == [key \in keys |-> subset_arr_or_list(key, data[key], indices)]
        pairs == UNION {{<<key, nk>> : nk \in DOMAIN data[key]} : key \in data.nested_data_fields}
        nested == subset_nested(h, data, pairs, indices, <<>>)
        changed_nested_data ==
            [key \in data.nested_data_fields |->
                [nk \in DOMAIN data[key] |-> nested.refs[<<key, nk>>]]]
        kwargs == [key \in keys \cup data.nested_data_fields |->
                      IF key \in data.nested_data_fields
                      THEN changed_nested_data[key] ELSE changed_values[key]]
    IN  IF \E key \in keys : ~AllOk(indices, Len0(key, data[key]))
        THEN Raise(h, obj, "IndexError")
        ELSE IF nested.status # "ok"
        THEN Raise(h, obj, nested.status)
        ELSE copy_with_changed_values(nested.heap, obj, kwargs)

\* mutation: uris=data.target_data[field].uris, not re-indexed
new_target_uris_kept(old, indices) ==
    Target_Data(TakeCols(old.arr, indices), old.in_test_set,
                old.uris, Take(old.labels, indices))

\* the Target_Data(...) subset_categories builds for the named target
new_target(old, indices) ==
    Target_Data(TakeCols(old.arr, indices), old.in_test_set,
                Take(old.uris, indices), Take(old.labels, indices))

\* mutation: {field: ...} alone, the other targets dropped
new_target_data_only_field(target_data, field, new) == [n \in {field} |-> new]

\* data.target_data | {field: ...}
new_target_data(target_data, field, new) ==
    [n \in DOMAIN target_data \cup {field} |-> IF n = field THEN new ELSE target_data[n]]

subset_categories(h, obj, indices, field) ==
    LET data == h[obj]
        old == h[data.target_data[field]]
        new == Fresh(data.target_data[field])
        h1 == [o \in DOMAIN h \cup {new} |->
                  IF o = new THEN new_target(old, indices) ELSE h[o]]
    IN  IF /\ AllOk(indices, old.arr.cols)
           /\ AllOk(indices, Len(old.uris))
           /\ AllOk(indices, Len(old.labels))
        THEN copy_with_changed_values(
                 h1, obj, [target_data |-> new_target_data(data.target_data, field, new)])
        ELSE Raise(h, obj, "IndexError")

\* mutation: the words stay keyed by their old index
id_to_word_old_keys(id_to_word, indices) ==
    [old_index \in {indices[k] : k \in 1..Len(indices)} |-> id_to_word[old_index]]

\* {new_index: data.id_to_word[int(old_index)] for new_index, old_index in enumerate(indices)}
new_id_to_word(id_to_word, indices) ==
    [new_index \in 0..(Len(indices) - 1) |-> id_to_word[indices[new_index + 1]]]

subset_words(h, obj, indices) ==
    LET data == h[obj]
    IN  IF ~AllOk(indices, data.bows.cols)
        THEN Raise(h, obj, "IndexError")
        ELSE IF \E k \in 1..Len(indices) : indices[k] \notin DOMAIN data.id_to_word
        THEN Raise(h, obj, "KeyError")
        ELSE copy_with_changed_values(
                 h, obj, [bows |-> TakeCols(data.bows, indices),
                          id_to_word |-> new_id_to_word(data.id_to_word, indices)])

-----------------------------------------------------------------------------
(* flat_classification.py: the named tuple Target_Data(arr, uris, labels) and
   its category filter.  A call returns [status, value, asserted]: asserted
   tells whether the assert statement was executed. *)

Flat_Target_Data(arr, uris, labels) == [arr |-> arr, uris |-> uris, labels |-> labels]

\* np.where(subset_mask)[0]: the 0-based positions the mask selects
where(subset_mask) == {i \in 0..(Len(subset_mask) - 1) : subset_mask[i + 1]}

\* [x for i, x in enumerate(seq) if i in subset_indices]
enumerate_if_in(seq, subset_indices) ==
    LET F[i \in 0..Len(seq)] ==
            IF i = 0 THEN <<>>
            ELSE IF (i - 1) \in subset_indices THEN Append(F[i - 1], seq[i]) ELSE F[i - 1]
    IN  F[Len(seq)]

\* arr[:, subset_mask] with a boolean mask as long as the column axis
MaskCols(m, subset_mask) ==
    [cols |-> Cardinality(where(subset_mask)),
     rows |-> [r \in 1..Len(m.rows) |-> enumerate_if_in(m.rows[r], where(subset_mask))]]

\* mutation: the assert statement removed
assert_skipped(data) == TRUE

\* len(data.uris) == len(data.labels) == data.arr.shape[-1]
assert_aligned(data) ==
    Len(data.uris) = Len(data.labels) /\ Len(data.labels) = data.arr.cols

subset_target_categories(data, subset_mask) ==
    LET subset_indices == where(subset_mask)
        new == Flat_Target_Data(MaskCols(data.arr, subset_mask),
                                enumerate_if_in(data.uris, subset_indices),
                                enumerate_if_in(data.labels, subset_indices))
    IN  IF Len(subset_mask) # data.arr.cols
        THEN [status |-> "IndexError", value |-> data, asserted |-> FALSE]
        ELSE IF ~assert_aligned(new)
        THEN [status |-> "AssertionError", value |-> data, asserted |-> TRUE]
        ELSE [status |-> "ok", value |-> new, asserted |-> TRUE]

-----------------------------------------------------------------------------
(* Records the pipeline produces: BoW_Data.from_data of a Data record whose
   targets were encoded from sorted category ids. *)

RecA ==
    BoW_Data(<<"r0", "r1", "r2">>, <<"id0", "id1", "id2">>, <<TRUE, FALSE, FALSE>>,
             [t1 |-> Target_Data([cols |-> 2, rows |-> <<<<TRUE, TRUE>>, <<TRUE, FALSE>>, <<FALSE, FALSE>>>>],
                                 <<FALSE, FALSE, TRUE>>, <<"a", "b">>, <<"label a", "None">>),
              t2 |-> Target_Data([cols |-> 1, rows |-> <<<<TRUE>>, <<FALSE>>, <<TRUE>>>>],
                                 <<FALSE, TRUE, FALSE>>, <<"x">>, <<"label x">>)],
             << <<"cat", "dog">>, <<"dog">>, <<"fish", "cat", "cat">> >>,
             [cols |-> 3, rows |-> <<<<1, 1, 0>>, <<0, 1, 0>>, <<2, 0, 1>>>>],
             (0 :> "cat") @@ (1 :> "dog") @@ (2 :> "fish"))

RecB ==
    BoW_Data(<<"s0", "s1">>, <<"id7", "id8">>, <<FALSE, TRUE>>,
             [t1 |-> Target_Data([cols |-> 1, rows |-> <<<<TRUE>>, <<TRUE>>>>],
                                 <<TRUE, FALSE>>, <<"c">>, <<"None">>),
              t2 |-> Target_Data([cols |-> 2, rows |-> <<<<FALSE, TRUE>>, <<TRUE, TRUE>>>>],
                                 <<FALSE, FALSE>>, <<"x", "y">>, <<"label x", "label y">>)],
             << <<"owl">>, <<"owl", "emu", "owl">> >>,
             [cols |-> 2, rows |-> <<<<0, 1>>, <<1, 2>>>>],
             (0 :> "emu") @@ (1 :> "owl"))

InitRecords == {RecA, RecB}

-----------------------------------------------------------------------------
(* The caller: a sequence of subsetting calls, each on the record the
   previous call returned (or on its own record after an exception). *)

\* index lists a caller passes for an axis of length n: in range, negative,
\* one past the end, duplicates, any order
IndexLists(n) == UNION {[1..l -> (-1)..n] : l \in 0..MaxLen}

NoCall(v) == [op |-> "none", indices |-> <<>>, field |-> "none", status |-> "none",
              asserted |-> FALSE, input |-> v, n |-> 0]

Returned(r, op, indices, field, v) ==
    /\ heap' = r.heap
    /\ cur' = r.ret
    /\ last' = [op |-> op, indices |-> indices, field |-> field, status |-> r.status,
                asserted |-> FALSE, input |-> v, n |-> last.n + 1]

NumDocs(v) == Len(v.raw_texts)

\* the caller holds a record and may call
CanCall == last.n < MaxOps /\ last.status = "none"

\* The caller keeps the returned record as its own and drops the argument
\* (data = subset_...(data, ...)); an exception ends the caller's sequence.
Keep ==
    /\ last.status = "ok"
    /\ last.n < MaxOps
    /\ LET v == DeepValue(heap, cur)
       IN  /\ heap' = Store(v)
           /\ last' = [NoCall(v) EXCEPT !.n = last.n]
    /\ cur' = "arg"
    /\ UNCHANGED <<flat, rt, pipe, cached_uris, net, fs>>

SubsetDataPoints ==
    /\ CanCall
    /\ LET v == DeepValue(heap, cur)
       IN  \E indices \in IndexLists(NumDocs(v)) :
              Returned(subset_data_points(Store(v), "arg", indices),
                       "subset_data_points", indices, "none", v)
    /\ UNCHANGED <<flat, rt, pipe, cached_uris, net, fs>>

SubsetCategories ==
    /\ CanCall
    /\ LET v == DeepValue(heap, cur)
       IN  \E field \in DOMAIN v.target_data :
           \E indices \in IndexLists(v.target_data[field].arr.cols) :
              Returned(subset_categories(Store(v), "arg", indices, field),
                       "subset_categories", indices, field, v)
    /\ UNCHANGED <<flat, rt, pipe, cached_uris, net, fs>>

SubsetWords ==
    /\ CanCall
    /\ LET v == DeepValue(heap, cur)
       IN  \E indices \in IndexLists(v.bows.cols) :
              Returned(subset_words(Store(v), "arg", indices),
                       "subset_words", indices, "none", v)
    /\ UNCHANGED <<flat, rt, pipe, cached_uris, net, fs>>

Init ==
    /\ \E v \in InitRecords :
          /\ heap = Store(v)
          /\ last = NoCall(v)
    /\ cur = "arg"
    /\ pipe = "none"
    /\ cached_uris = <<>>
    /\ net = <<>>
    /\ fs = <<>>
    /\ flat = "none"
    /\ rt = "none"

Next == SubsetDataPoints \/ SubsetCategories \/ SubsetWords \/ Keep

Spec == Init /\ [][Next]_vars

-----------------------------------------------------------------------------
(* Permutation round trip: a record an earlier subset_data_points call
   produced is permuted and then permuted back. *)

\* most documents of a record that is permuted
MaxDocs == 3

\* the index lists that are permutations of 0..n-1
IndexPermutations(n) ==
    {P \in [1..n -> 0..(n - 1)] : \A j, k \in 1..n : j # k => P[j] # P[k]}

\* inverse(P)[P[j]] = j
Inverse(P) == [i \in 1..Len(P) |-> (CHOOSE j \in 1..Len(P) : P[j] = i - 1) - 1]

\* what subset_data_points makes of the pipeline's records with in-range lists
RoundTripRecords ==
    {DeepValue(subset_data_points(Store(v), "arg", I).heap, "res") :
        <<v, I>> \in UNION {{<<w, J>> : J \in UNION {[1..l -> 0..(NumDocs(w) - 1)] : l \in 0..MaxDocs}}
                               : w \in InitRecords}}

InitRoundTrip ==
    /\ \E v \in RoundTripRecords :
          /\ heap = Store(v)
          /\ last = NoCall(v)
          /\ \E P \in IndexPermutations(NumDocs(v)) :
                rt = [orig |-> v, perm |-> P, stage |-> 0]
    /\ cur = "arg"
    /\ pipe = "none"
    /\ cached_uris = <<>>
    /\ net = <<>>
    /\ fs = <<>>
    /\ flat = "none"

Permute ==
    /\ rt.stage = 0
    /\ LET v == DeepValue(heap, cur)
       IN  Returned(subset_data_points(Store(v), "arg", rt.perm),
                    "subset_data_points", rt.perm, "none", v)
    /\ rt' = [rt EXCEPT !.stage = 1]
    /\ UNCHANGED <<flat, pipe, cached_uris, net, fs>>

PermuteBack ==
    /\ rt.stage = 1
    /\ LET v == DeepValue(heap, cur)
       IN  Returned(subset_data_points(Store(v), "arg", Inverse(rt.perm)),
                    "subset_data_points", Inverse(rt.perm), "none", v)
    /\ rt' = [rt EXCEPT !.stage = 2]
    /\ UNCHANGED <<flat, pipe, cached_uris, net, fs>>

NextRoundTrip == Permute \/ PermuteBack

SpecRoundTrip == InitRoundTrip /\ [][NextRoundTrip]_vars

-----------------------------------------------------------------------------
(* Category filtering on records a caller built by hand: neither Target_Data
   class checks anything at construction, so uris, labels and the columns of
   arr may disagree in the argument. *)

\* most categories of a hand-built target record
MaxCats == 2

CategoryNames == <<"a", "b", "c", "d", "e">>
CategoryLabels == <<"label a", "None", "label c", "label d", "None">>

\* a 2-document membership matrix with c columns
FlatArr(c) == [cols |-> c, rows |-> <<[k \in 1..c |-> TRUE], [k \in 1..c |-> k % 2 = 1]>>]

FlatTargets ==
    {Flat_Target_Data(FlatArr(c), SubSeq(CategoryNames, 1, u), SubSeq(CategoryLabels, 1, l)) :
        c \in 0..MaxCats, u \in 0..MaxCats, l \in 0..MaxCats}

\* RecA and RecB with target t1's uris and labels of any lengths
HandBuiltRecords ==
    {[v EXCEPT !.target_data.t1.uris = SubSeq(CategoryNames, 1, u),
               !.target_data.t1.labels = SubSeq(CategoryLabels, 1, l)] :
        v \in InitRecords, u \in 0..MaxCats, l \in 0..MaxCats}

Masks(n) == UNION {[1..l -> BOOLEAN] : l \in (n - 1)..(n + 1) \cap 0..(MaxCats + 1)}

InitCategories ==
    /\ \E v \in HandBuiltRecords :
          /\ heap = Store(v)
          /\ last = NoCall(v)
    /\ cur = "arg"
    /\ pipe = "none"
    /\ cached_uris = <<>>
    /\ net = <<>>
    /\ fs = <<>>
    /\ flat \in FlatTargets
    /\ rt = "none"

SubsetTargetCategories ==
    /\ CanCall
    /\ \E subset_mask \in Masks(flat.arr.cols) :
          LET r == subset_target_categories(flat, subset_mask)
          IN  /\ flat' = r.value
              /\ last' = [op |-> "subset_target_categories", indices |-> subset_mask,
                          field |-> "none", status |-> r.status, asserted |-> r.asserted,
                          input |-> flat, n |-> last.n + 1]
    /\ UNCHANGED <<heap, cur, rt, pipe, cached_uris, net, fs>>

NextCategories == SubsetCategories \/ SubsetTargetCategories

SpecCategories == InitCategories /\ [][NextCategories]_vars

-----------------------------------------------------------------------------
(* What the properties speak about *)

\* the record the caller holds now
Current == DeepValue(heap, cur)

\* the last call returned a record
ReturnedBy(op) == last.op = op /\ last.status = "ok"

\* column c (0-based) of a 2-D array
Column(m, c) == [r \in 1..Len(m.rows) |-> m.rows[r][c + 1]]

\* the 0-based position index i names on an axis of length n
Position(i, n) == IF i >= 0 THEN i ELSE n + i

\* every row of a 2-D array has as many entries as the array has columns
WellShaped(m) == \A r \in 1..Len(m.rows) : Len(m.rows[r]) = m.cols

TargetAligned(t, n) ==
    /\ WellShaped(t.arr)
    /\ Len(t.arr.rows) = n
    /\ Len(t.in_test_set) = n
    /\ Len(t.uris) = t.arr.cols
    /\ Len(t.labels) = t.arr.cols

Aligned(v) ==
    LET n == Len(v.raw_texts)
    IN  /\ Len(v.ids) = n
        /\ Len(v.redaktion_arr) = n
        /\ Len(v.processed_texts) = n
        /\ Len(v.bows.rows) = n
        /\ WellShaped(v.bows)
        /\ DOMAIN v.id_to_word = 0..(v.bows.cols - 1)
        /\ \A f \in DOMAIN v.target_data : TargetAligned(v.target_data[f], n)

\* C1: every record reached from an aligned record by any sequence of
\* subset_data_points, subset_categories and subset_words calls is aligned:
\* all document-indexed fields have one length, each target has
\* len(uris) = len(labels) = columns of arr, and bows has one column per
\* entry of id_to_word.
C1_AlignmentPreserved == Aligned(Current)

\* a second call in a row returned, on a record a first call had shortened,
\* with a repeated index
C1_Witness ==
    /\ last.n = 2
    /\ ReturnedBy("subset_categories")
    /\ last.indices = <<0, 0>>
    /\ Len(last.input.raw_texts) = 1
    /\ Aligned(Current)

\* C2: after subset_categories(data, I, f) target f has
\* len(uris) = len(labels) = columns of arr = len(I), and column j, uris[j]
\* and labels[j] of the result are column I[j], uris[I[j]] and labels[I[j]]
\* of the input.
C2_CategoriesReindexed ==
    ReturnedBy("subset_categories") =>
        LET I == last.indices
            old == last.input.target_data[last.field]
            new == Current.target_data[last.field]
        IN  /\ Len(new.uris) = Len(I)
            /\ Len(new.labels) = Len(I)
            /\ new.arr.cols = Len(I)
            /\ WellShaped(new.arr)
            /\ Len(new.arr.rows) = Len(old.arr.rows)
            /\ \A j \in 1..Len(I) :
                  LET c == Position(I[j], old.arr.cols)
                  IN  /\ Column(new.arr, j - 1) = Column(old.arr, c)
                      /\ new.uris[j] = old.uris[c + 1]
                      /\ new.labels[j] = old.labels[c + 1]

\* two categories swapped
C2_Witness ==
    /\ ReturnedBy("subset_categories")
    /\ last.indices = <<1, 0>>
    /\ Current.target_data[last.field].uris = <<"b", "a">>

\* C3: subset_words(data, I) returns id_to_word with exactly the keys
\* 0..len(I)-1, new_id_to_word[k] = old_id_to_word[I[k]], and bows column k
\* equal to the input's bows column I[k].
C3_WordsReindexed ==
    ReturnedBy("subset_words") =>
        LET I == last.indices
            old == last.input
            new == Current
        IN  /\ DOMAIN new.id_to_word = 0..(Len(I) - 1)
            /\ new.bows.cols = Len(I)
            /\ WellShaped(new.bows)
            /\ Len(new.bows.rows) = Len(old.bows.rows)
            /\ \A k \in 0..(Len(I) - 1) :
                  /\ new.id_to_word[k] = old.id_to_word[I[k + 1]]
                  /\ Column(new.bows, k) = Column(old.bows, I[k + 1])

\* the scenario {0:cat, 1:dog, 2:fish} with I = [2, 0]
C3_Witness ==
    /\ ReturnedBy("subset_words")
    /\ last.indices = <<2, 0>>
    /\ last.input.id_to_word = (0 :> "cat") @@ (1 :> "dog") @@ (2 :> "fish")
    /\ Current.id_to_word = (0 :> "fish") @@ (1 :> "cat")
    /\ Current.bows.rows = <<<<0, 1>>, <<0, 0>>, <<1, 2>>>>

\* entry k of the result is entry I[k] of the input
Picked(new, old, I) ==
    /\ Len(new) = Len(I)
    /\ \A k \in 1..Len(I) : new[k] = old[Position(I[k], Len(old)) + 1]

\* C4: subset_data_points(data, I) returns a record in which every
\* document-indexed field, at the top level and in every nested target
\* record, has at position k the input's entry at position I[k]; a repeated
\* index replicates the row.
C4_DataPointsPicked ==
    ReturnedBy("subset_data_points") =>
        LET I == last.indices
            old == last.input
            new == Current
        IN  /\ Picked(new.raw_texts, old.raw_texts, I)
            /\ Picked(new.ids, old.ids, I)
            /\ Picked(new.redaktion_arr, old.redaktion_arr, I)
            /\ Picked(new.processed_texts, old.processed_texts, I)
            /\ Picked(new.bows.rows, old.bows.rows, I)
            /\ DOMAIN new.target_data = DOMAIN old.target_data
            /\ \A f \in DOMAIN old.target_data :
                  /\ Picked(new.target_data[f].arr.rows, old.target_data[f].arr.rows, I)
                  /\ Picked(new.target_data[f].in_test_set, old.target_data[f].in_test_set, I)

\* documents reordered with one repeated
C4_Witness ==
    /\ ReturnedBy("subset_data_points")
    /\ last.indices = <<2, 2>>
    /\ Current.raw_texts = <<"r2", "r2">>
    /\ Current.target_data["t2"].in_test_set = <<FALSE, FALSE>>
    /\ Current.target_data["t1"].arr.rows = <<<<FALSE, FALSE>>, <<FALSE, FALSE>>>>

\* the axis length the last category or word call indexed
AxisLen ==
    IF last.op = "subset_words" THEN last.input.bows.cols
    ELSE last.input.target_data[last.field].arr.cols

CategoryOrWordCall == last.op \in {"subset_categories", "subset_words"}

HasDuplicate(I) == \E j, k \in 1..Len(I) : j # k /\ I[j] = I[k]

\* C6 as stated: subset_categories / subset_words called with an index list
\* that holds an out-of-range index or a duplicate index fails with an error
\* instead of returning a record.
C6_OutOfRangeOrDuplicateFails ==
    (/\ CategoryOrWordCall
     /\ \/ \E k \in 1..Len(last.indices) : last.indices[k] >= AxisLen
        \/ HasDuplicate(last.indices))
    => last.status # "ok"

\* C6 amended: an index >= n (or < -n) makes both calls fail with IndexError
\* and no record is returned; a list whose indices all lie in 0..n-1 is
\* accepted whether or not an index repeats, and a repeated index replicates
\* the column; subset_words refuses the negative indices -n..-1 with KeyError.
C6_OutOfRangeFailsDuplicateReplicates ==
    CategoryOrWordCall =>
        LET I == last.indices
            n == AxisLen
        IN  /\ (\E k \in 1..Len(I) : I[k] >= n \/ I[k] < -n)
                  => (last.status = "IndexError" /\ cur = "arg")
            /\ (\A k \in 1..Len(I) : I[k] >= 0 /\ I[k] < n) => last.status = "ok"
            /\ (/\ last.op = "subset_words"
                /\ \A k \in 1..Len(I) : I[k] >= -n /\ I[k] < n
                /\ \E k \in 1..Len(I) : I[k] < 0)
                  => (last.status = "KeyError" /\ cur = "arg")
            /\ (last.status = "ok" /\ last.op = "subset_words")
                  => \A j, k \in 1..Len(I) :
                        I[j] = I[k] => Current.id_to_word[j - 1] = Current.id_to_word[k - 1]
            /\ (last.status = "ok" /\ last.op = "subset_categories")
                  => \A j, k \in 1..Len(I) :
                        I[j] = I[k] => Current.target_data[last.field].uris[j]
                                       = Current.target_data[last.field].uris[k]

\* a repeated word index was accepted and the word appears twice
C6_Witness ==
    /\ ReturnedBy("subset_words")
    /\ last.indices = <<1, 1>>
    /\ Current.id_to_word = (0 :> "dog") @@ (1 :> "dog")

\* C8: no call mutates its argument: after subset_data_points,
\* subset_categories or subset_words the input record (top-level fields,
\* target_data mapping, nested target records, id_to_word) equals what it was
\* before the call, and a returned record is another object than the input.
C8_NoInPlaceMutation ==
    last.op # "none" =>
        /\ DeepValue(heap, "arg") = last.input
        /\ last.status = "ok" =>
              /\ cur # "arg"
              /\ last.op = "subset_data_points" =>
                    \A f \in DOMAIN heap[cur].target_data :
                        heap[cur].target_data[f] # heap["arg"].target_data[f]

\* a call returned a record that differs from its untouched argument
C8_Witness ==
    /\ ReturnedBy("subset_data_points")
    /\ last.indices = <<1>>
    /\ DeepValue(heap, "arg") = RecA
    /\ Current # RecA
    /\ Current.target_data["t1"].in_test_set = <<FALSE>>

\* the top-level fields subset_categories must leave alone
TopLevelSame(new, old) ==
    /\ new.raw_texts = old.raw_texts
    /\ new.ids = old.ids
    /\ new.redaktion_arr = old.redaktion_arr
    /\ new.processed_texts = old.processed_texts
    /\ new.bows = old.bows
    /\ new.id_to_word = old.id_to_word

\* C9: subset_categories(data, I, f) changes only arr columns, uris and labels
\* of target f: every other target record, f's in_test_set and rows, and
\* raw_texts, ids, redaktion_arr, processed_texts, bows and id_to_word equal
\* the input's.
C9_CategoriesFrame ==
    ReturnedBy("subset_categories") =>
        LET old == last.input
            new == Current
        IN  /\ TopLevelSame(new, old)
            /\ DOMAIN new.target_data = DOMAIN old.target_data
            /\ \A g \in DOMAIN old.target_data \ {last.field} :
                  new.target_data[g] = old.target_data[g]
            /\ new.target_data[last.field].in_test_set
                  = old.target_data[last.field].in_test_set
            /\ Len(new.target_data[last.field].arr.rows)
                  = Len(old.target_data[last.field].arr.rows)

\* target t1 lost a category while t2 and the documents stayed
C9_Witness ==
    /\ ReturnedBy("subset_categories")
    /\ last.field = "t1"
    /\ last.indices = <<1>>
    /\ last.input = RecA
    /\ Current.target_data["t1"].uris = <<"b">>
    /\ Current.target_data["t2"] = RecA.target_data["t2"]

\* C10: subset_data_points leaves the category-axis fields alone: every
\* target's uris and labels and its number of arr columns are the input's,
\* and so are id_to_word and the number of bows columns.
C10_DataPointsFrame ==
    ReturnedBy("subset_data_points") =>
        LET old == last.input
            new == Current
        IN  /\ new.id_to_word = old.id_to_word
            /\ new.bows.cols = old.bows.cols
            /\ DOMAIN new.target_data = DOMAIN old.target_data
            /\ \A f \in DOMAIN old.target_data :
                  /\ new.target_data[f].uris = old.target_data[f].uris
                  /\ new.target_data[f].labels = old.target_data[f].labels
                  /\ new.target_data[f].arr.cols = old.target_data[f].arr.cols

\* all documents dropped, the categories and words still there
C10_Witness ==
    /\ ReturnedBy("subset_data_points")
    /\ last.indices = <<>>
    /\ last.input = RecA
    /\ Current.target_data["t1"].uris = <<"a", "b">>
    /\ Current.target_data["t1"].arr = [cols |-> 2, rows |-> <<>>]
    /\ Current.bows.cols = 3

\* the document-indexed fields of two records agree
SameDocuments(new, old) ==
    /\ new.raw_texts = old.raw_texts
    /\ new.ids = old.ids
    /\ new.redaktion_arr = old.redaktion_arr
    /\ new.processed_texts = old.processed_texts
    /\ new.bows.rows = old.bows.rows
    /\ DOMAIN new.target_data = DOMAIN old.target_data
    /\ \A f \in DOMAIN old.target_data :
          /\ new.target_data[f].arr.rows = old.target_data[f].arr.rows
          /\ new.target_data[f].in_test_set = old.target_data[f].in_test_set

\* C5: for a record R and a permutation P of its document indices,
\* subset_data_points(subset_data_points(R, P), inverse(P)) has R's document
\* order and values in every document-indexed field, nested targets included.
C5_PermutationRoundTrip ==
    rt.stage = 2 => (last.status = "ok" /\ SameDocuments(Current, rt.orig))

\* a 3-cycle on three distinct documents was applied and undone
C5_Witness ==
    /\ rt.stage = 2
    /\ rt.perm = <<1, 2, 0>>
    /\ last.indices = <<2, 0, 1>>
    /\ rt.orig.raw_texts = <<"r0", "r1", "r2">>
    /\ last.input.raw_texts = <<"r1", "r2", "r0">>
    /\ Current.raw_texts = <<"r0", "r1", "r2">>

\* a category-filtering call returned
CategoryStepReturned ==
    ReturnedBy("subset_categories") \/ ReturnedBy("subset_target_categories")

\* C7 as stated: after every category-filtering step (subset_target_categories
\* and subset_categories) the equality len(ids) = len(labels) = columns is
\* checked.
C7_EveryCategoryStepChecks == CategoryStepReturned => last.asserted

\* C7 amended: subset_target_categories checks the equality and fails with an
\* AssertionError on a mismatch; subset_categories performs no check, yet it
\* indexes arr columns, uris and labels with one list, so neither step ever
\* returns a record whose uris, labels and arr columns disagree.
C7_NoMisalignedCategoriesReturned ==
    /\ ReturnedBy("subset_target_categories") =>
          /\ last.asserted
          /\ Len(flat.uris) = flat.arr.cols
          /\ Len(flat.labels) = flat.arr.cols
          /\ WellShaped(flat.arr)
    /\ (last.op = "subset_target_categories" /\ last.status # "ok") =>
          /\ last.status \in {"AssertionError", "IndexError"}
          /\ flat = last.input
    /\ ReturnedBy("subset_categories") =>
          LET t == Current.target_data[last.field]
          IN  /\ ~last.asserted
              /\ Len(t.uris) = t.arr.cols
              /\ Len(t.labels) = t.arr.cols
              /\ WellShaped(t.arr)

\* the assert stopped a filter whose uris and labels had come apart
C7_Witness ==
    /\ last.op = "subset_target_categories"
    /\ last.status = "AssertionError"
    /\ last.indices = <<TRUE, TRUE>>
    /\ Len(last.input.uris) = 2
    /\ Len(last.input.labels) = 1

-----------------------------------------------------------------------------
(* flat_classification.py, _values_to_target_data: the minimum-support
   filter.  arr.sum(-2) counts, per category column, the documents that
   carry the category; arr.sum(-1) counts, per document, its categories. *)

\* number of TRUE entries of a boolean list
CountTrue(bs) == Cardinality({k \in 1..Len(bs) : bs[k]})

\* arr.sum(-2): one count per column
sum_axis_m2(arr) == [j \in 1..arr.cols |-> Cardinality({r \in 1..Len(arr.rows) : arr.rows[r][j]})]

\* arr.sum(-1): one count per row
sum_axis_m1(arr) == [r \in 1..Len(arr.rows) |-> CountTrue(arr.rows[r])]

\* mutation: a category with exactly min_category_support documents is kept
min_support_mask_ge(arr, min_category_support) ==
    [j \in 1..arr.cols |-> sum_axis_m2(arr)[j] >= min_category_support]

\* arr.sum(-2) > min_category_support
min_support_mask(arr, min_category_support) ==
    [j \in 1..arr.cols |-> sum_axis_m2(arr)[j] > min_category_support]

\* all boolean arrays of shape (d, c)
BoolArrays(d, c) == {[cols |-> c, rows |-> rs] : rs \in [1..d -> [1..c -> BOOLEAN]]}

\* target records as _values_to_target_data builds them: one uri and one
\* label per column
EncodedTargets ==
    {Flat_Target_Data(arr, SubSeq(CategoryNames, 1, arr.cols), SubSeq(CategoryLabels, 1, arr.cols)) :
        arr \in UNION {BoolArrays(d, c) : d \in 0..MaxDocs, c \in 0..MaxCats}}

\* thresholds a caller passes
Thresholds == (-1)..MaxDocs

InitMinSupport ==
    /\ flat \in EncodedTargets
    /\ last = NoCall(flat)
    /\ heap = <<>>
    /\ cur = "none"
    /\ rt = "none"
    /\ pipe = "none"
    /\ cached_uris = <<>>
    /\ net = <<>>
    /\ fs = <<>>

\* subset_target_categories(data, arr.sum(-2) > min_category_support)
MinSupportFilter ==
    /\ CanCall
    /\ \E min_category_support \in Thresholds :
          LET r == subset_target_categories(flat, min_support_mask(flat.arr, min_category_support))
          IN  /\ flat' = r.value
              /\ last' = [op |-> "min_support_filter", indices |-> <<min_category_support>>,
                          field |-> "none", status |-> r.status, asserted |-> r.asserted,
                          input |-> flat, n |-> last.n + 1]
    /\ UNCHANGED <<heap, cur, rt, pipe, cached_uris, net, fs>>

NextMinSupport == MinSupportFilter

SpecMinSupport == InitMinSupport /\ [][NextMinSupport]_vars

\* the columns of arr whose support exceeds t, as 1-based positions
SupportedColumns(arr, t) ==
    {j \in 1..arr.cols : Cardinality({r \in 1..Len(arr.rows) : arr.rows[r][j]}) > t}

\* C11: filtering a target record with the mask (column sum > t) succeeds and
\* keeps exactly the columns whose support is > t: the k-th supported column
\* of the input is column k of the result with its content, uri and label,
\* nothing else is kept, and the number of document rows is unchanged.
C11_MinSupportFilter ==
    last.op = "min_support_filter" =>
        LET t == last.indices[1]
            old == last.input
            kept == SupportedColumns(old.arr, t)
        IN  /\ last.status = "ok"
            /\ flat.arr.cols = Cardinality(kept)
            /\ Len(flat.uris) = Cardinality(kept)
            /\ Len(flat.labels) = Cardinality(kept)
            /\ Len(flat.arr.rows) = Len(old.arr.rows)
            /\ WellShaped(flat.arr)
            /\ \A j \in kept :
                  LET k == Cardinality({i \in kept : i <= j})
                  IN  /\ Column(flat.arr, k - 1) = Column(old.arr, j - 1)
                      /\ flat.uris[k] = old.uris[j]
                      /\ flat.labels[k] = old.labels[j]

\* a filter with threshold 1 that drops the first of two columns (support 1)
\* and keeps the second (support 2)
C11_Witness ==
    /\ last.op = "min_support_filter"
    /\ last.indices = <<1>>
    /\ last.input.arr.cols = 2
    /\ sum_axis_m2(last.input.arr) = <<1, 2>>
    /\ flat.uris = <<"b">>
    /\ flat.arr.cols = 1

-----------------------------------------------------------------------------
(* Python values of the pipeline.  A str is the sequence of its characters,
   with the suffixes ".html" and ".json" written as one element each; None,
   str, list and frozenset values that share a column or an argument are
   tagged records. *)

PyNone == [kind |-> "None"]
PyStr(s) == [kind |-> "str", str |-> s]
PyList(xs) == [kind |-> "list", items |-> xs]
PyFrozenSet(S) == [kind |-> "frozenset", elems |-> S]

\* the characters of the model's strings, in code point order
Chars == <<".html", ".json", "a", "b", "x">>

CharRank(c) == CHOOSE k \in 1..Len(Chars) : Chars[k] = c

\* s < t on str: lexicographic by code point
RECURSIVE StrLess(_, _)
StrLess(s, t) ==
    IF t = <<>> THEN FALSE
    ELSE IF s = <<>> THEN TRUE
    ELSE IF Head(s) # Head(t) THEN CharRank(Head(s)) < CharRank(Head(t))
    ELSE StrLess(Tail(s), Tail(t))

\* the orders in which iterating a set may yield its elements: the order
\* follows the elements' hashes, and str hashes differ from process to process
IterationOrders(S) ==
    {f \in [1..Cardinality(S) -> S] : \A i, j \in 1..Cardinality(S) : f[i] = f[j] => i = j}

\* mutation: the categories stay in iteration order
sorted_skipped(xs) == xs

\* sorted(x): ascending, equal elements in their input order
sorted(xs) ==
    LET Insert(ys, x) ==
            LET p == Cardinality({i \in 1..Len(ys) : ~StrLess(x, ys[i])})
            IN  SubSeq(ys, 1, p) \o <<x>> \o SubSeq(ys, p + 1, Len(ys))
        F[k \in 0..Len(xs)] == IF k = 0 THEN <<>> ELSE Insert(F[k - 1], xs[k])
    IN  F[Len(xs)]

\* trans.as_boolean_array(values, sort_fn=lambda x: sorted(x)) -> (arr, uris):
\* the categories of all documents, sorted, and one membership row per
\* document; order is the order in which the set of categories is iterated
as_boolean_array(values, order) ==
    LET uris == sorted(order)
    IN  [arr |-> [cols |-> Len(uris),
                  rows |-> [i \in 1..Len(values) |->
                               [j \in 1..Len(uris) |->
                                   values[i].kind = "frozenset" /\ uris[j] \in values[i].elems]]],
         uris |-> uris]

\* the categories seen in a column
seen_categories(values) ==
    UNION {values[i].elems : i \in {k \in 1..Len(values) : values[k].kind = "frozenset"}}

\* the category ids of the encoder runs: "a" < "ab" < "b"
EncoderCategories == {<<"a">>, <<"a", "b">>, <<"b">>}

\* what a document holds in a target column
EncoderValues == {PyNone} \cup {PyFrozenSet(S) : S \in SUBSET EncoderCategories}

\* encoder runs on one input
MaxRuns == 2

InitEncoder ==
    /\ pipe \in {[op |-> "as_boolean_array", values |-> vs, runs |-> <<>>] :
                    vs \in UNION {[1..d -> EncoderValues] : d \in 0..MaxDocs}}
    /\ flat = "none"
    /\ last = "none"
    /\ heap = <<>>
    /\ cur = "none"
    /\ rt = "none"
    /\ cached_uris = <<>>
    /\ net = <<>>
    /\ fs = <<>>

AsBooleanArray ==
    /\ pipe.op = "as_boolean_array"
    /\ Len(pipe.runs) < MaxRuns
    /\ \E order \in IterationOrders(seen_categories(pipe.values)) :
          pipe' = [pipe EXCEPT !.runs = Append(@, as_boolean_array(pipe.values, order))]
    /\ UNCHANGED <<heap, cur, last, flat, rt, cached_uris, net, fs>>

NextEncoder == AsBooleanArray

SpecEncoder == InitEncoder /\ [][NextEncoder]_vars

\* the encoder's input of the scenario: {a, b}, {a}, {}
ScenarioValues ==
    <<PyFrozenSet({<<"a">>, <<"b">>}), PyFrozenSet({<<"a">>}), PyFrozenSet({})>>

\* C14: every encoder run returns the categories seen in the input, each
\* once and in ascending order, and one row per document whose entry j tells
\* whether the document's set holds category j (None and the empty set give
\* an all-false row); two runs on one input return the same ids and matrix;
\* {a, b}, {a}, {} gives ids [a, b] and [[T, T], [T, F], [F, F]].
C14_CategoricalEncoding ==
    pipe.op = "as_boolean_array" =>
        /\ \A k \in 1..Len(pipe.runs) :
              LET r == pipe.runs[k]
                  n == Len(r.uris)
              IN  /\ {r.uris[j] : j \in 1..n} = seen_categories(pipe.values)
                  /\ \A j \in 1..(n - 1) : StrLess(r.uris[j], r.uris[j + 1])
                  /\ r.arr.cols = n
                  /\ Len(r.arr.rows) = Len(pipe.values)
                  /\ \A i \in 1..Len(pipe.values) :
                        /\ Len(r.arr.rows[i]) = n
                        /\ \A j \in 1..n :
                              r.arr.rows[i][j] <=>
                                  /\ pipe.values[i] # PyNone
                                  /\ r.uris[j] \in pipe.values[i].elems
              /\ (pipe.values = ScenarioValues =>
                      /\ r.uris = << <<"a">>, <<"b">> >>
                      /\ r.arr.rows = <<<<TRUE, TRUE>>, <<TRUE, FALSE>>, <<FALSE, FALSE>>>>)
        /\ \A k, l \in 1..Len(pipe.runs) : pipe.runs[k] = pipe.runs[l]

\* two runs on a column with a None, an empty and a three-category document
C14_Witness ==
    /\ pipe.op = "as_boolean_array"
    /\ Len(pipe.runs) = 2
    /\ pipe.values = <<PyNone, PyFrozenSet(EncoderCategories), PyFrozenSet({})>>
    /\ pipe.runs[2].uris = << <<"a">>, <<"a", "b">>, <<"b">> >>
    /\ pipe.runs[2].arr.rows = <<<<FALSE, FALSE, FALSE>>, <<TRUE, TRUE, TRUE>>, <<FALSE, FALSE, FALSE>>>>

-----------------------------------------------------------------------------
(* fetch.py: label lookup.  cached_uris is the module's dict from looked-up
   id to label ("None" for None); net counts the HTTP requests, one entry
   per (id, requested url).  A call's answers give, for each id it may
   request, what the request meets. *)

\* what requests.get(uri) followed by request.json() can meet
Outcomes == {"ok", "not_ok", "exception", "invalid_json"}

\* the concept a server holds at a url; the one of b.json has no German label
Concept(url) ==
    IF url = <<"a", ".json">> THEN [prefLabel |-> [de |-> "label a", en |-> "a"]]
    ELSE IF url = <<"b", ".json">> THEN [prefLabel |-> [en |-> "b"]]
    ELSE IF url = <<"x", ".json">> THEN [prefLabel |-> [de |-> "label x"]]
    ELSE [id |-> "other"]

label_seq == <<"prefLabel", "de">>

\* its_data.data.get_in: follows the path, absent keys give None
RECURSIVE get_in(_, _)
get_in(node, path) ==
    IF path = <<>> THEN node
    ELSE IF Head(path) \in DOMAIN node THEN get_in(node[Head(path)], Tail(path))
    ELSE "None"

\* the url uri_label requests: a trailing .html dropped, .json appended
\* unless the uri ends in it
request_url(uri) ==
    LET stem == IF Len(uri) > 0 /\ uri[Len(uri)] = ".html" THEN SubSeq(uri, 1, Len(uri) - 1) ELSE uri
    IN  IF Len(stem) > 0 /\ stem[Len(stem)] = ".json" THEN stem ELSE Append(stem, ".json")

RequestsFor(n, uri) ==
    LET key == [uri |-> uri, url |-> request_url(uri)]
    IN  IF key \in DOMAIN n THEN n[key] ELSE 0

\* uri_label(uri): [label, net]
uri_label(n, uri, answers) ==
    IF uri = <<>> THEN [label |-> "None", net |-> n]
    ELSE LET key == [uri |-> uri, url |-> request_url(uri)]
             sent == (key :> (RequestsFor(n, uri) + 1)) @@ n
         IN  IF answers[uri] = "ok"
             THEN [label |-> get_in(Concept(key.url), label_seq), net |-> sent]
             ELSE [label |-> "None", net |-> sent]

\* mutation: the cache is never consulted
cache_hit_never(cache, uri) == FALSE

\* uri in cached_uris
cache_hit(cache, uri) == uri \in DOMAIN cache

\* uri_to_label(uri) on the lookup state [cache, net, out]: out collects the
\* labels returned so far
uri_to_label(st, uri, answers) ==
    IF cache_hit(st.cache, uri)
    THEN [st EXCEPT !.out = Append(@, st.cache[uri])]
    ELSE LET r == uri_label(st.net, uri, answers)
         IN  [cache |-> (uri :> r.label) @@ st.cache, net |-> r.net, out |-> Append(st.out, r.label)]

\* [uri_to_label(uri) for uri in ids]
uris_to_labels(st, ids, answers) ==
    LET F[k \in 0..Len(ids)] ==
            IF k = 0 THEN [st EXCEPT !.out = <<>>] ELSE uri_to_label(F[k - 1], ids[k], answers)
    IN  F[Len(ids)]

\* iterating an entry of uris: a str yields its characters, a list its items
Iterate(value) ==
    IF value.kind = "str" THEN [k \in 1..Len(value.str) |-> <<value.str[k]>>]
    ELSE IF value.kind = "list" THEN value.items
    ELSE <<>>

\* multi_value as given, or isinstance(value, Collection) of the first value
\* that is not None: a str is a Collection as well as a list
detect_multi_value(values, multi_value) ==
    IF multi_value # "None" THEN multi_value
    ELSE IF \A k \in 1..Len(values) : values[k] = PyNone THEN "None"
    ELSE "True"

\* labels_from_uris(uris, multi_value): [cache, net, multi, labels]; with
\* multi the labels are PyNone or PyList entries, else label strings
labels_from_uris(cache, n, uris, multi_value, answers) ==
    LET multi == detect_multi_value(uris, multi_value) = "True"
        looked(prev, uri, got) ==
            IF uri = PyNone
            THEN [prev EXCEPT !.labels = Append(@, IF multi THEN PyNone ELSE "None")]
            ELSE [cache |-> got.cache, net |-> got.net, out |-> <<>>,
                  labels |-> Append(prev.labels, IF multi THEN PyList(got.out) ELSE got.out[1])]
        step(prev, uri) ==
            looked(prev, uri,
                   uris_to_labels(prev, IF multi THEN Iterate(uri) ELSE <<uri.str>>, answers))
        F[k \in 0..Len(uris)] ==
            IF k = 0 THEN [cache |-> cache, net |-> n, out |-> <<>>, labels |-> <<>>]
            ELSE step(F[k - 1], uris[k])
        result(st) == [cache |-> st.cache, net |-> st.net, multi |-> multi, labels |-> st.labels]
    IN  result(F[Len(uris)])

\* the SKOS vocabulary a server holds: x and a have a German label, b has none
Vocabulary ==
    <<[id |-> <<"x">>, prefLabel |-> [de |-> "label x"]],
      [id |-> <<"a">>, prefLabel |-> [de |-> "label a", en |-> "a"]],
      [id |-> <<"b">>, prefLabel |-> [en |-> "b"]]>>

id_seq == <<"id">>

\* _get_label_dict(schema, label_seq, id_seq): the concepts that have a label
\* at label_seq, by id; a later concept overrides an earlier one
_get_label_dict(schema) ==
    LET F[k \in 0..Len(schema)] ==
            IF k = 0 THEN <<>>
            ELSE IF get_in(schema[k], label_seq) = "None" THEN F[k - 1]
            ELSE (get_in(schema[k], id_seq) :> get_in(schema[k], label_seq)) @@ F[k - 1]
    IN  F[Len(schema)]

\* labels[x] on the defaultdict(lambda: None)
default_none(labels, x) == IF x \in DOMAIN labels THEN labels[x] ELSE "None"

\* labels_from_skos(ids, url, multi_value): [status, net, multi, labels]; the
\* request and request.json() are not guarded
labels_from_skos(n, ids, multi_value, answer) ==
    LET key == [uri |-> <<>>, url |-> <<"vocabulary", ".json">>]
        sent == (key :> ((IF key \in DOMAIN n THEN n[key] ELSE 0) + 1)) @@ n
        labels == _get_label_dict(Vocabulary)
        multi == detect_multi_value(ids, multi_value) = "True"
        fun_multi(x) ==
            IF x = PyNone THEN PyNone
            ELSE PyList([k \in 1..Len(Iterate(x)) |-> default_none(labels, Iterate(x)[k])])
        fun_single(x) == IF x = PyNone THEN "None" ELSE default_none(labels, x.str)
    IN  IF answer # "ok"
        THEN [status |-> "RequestError", net |-> sent, multi |-> multi, labels |-> <<>>]
        ELSE [status |-> "ok", net |-> sent, multi |-> multi,
              labels |-> [k \in 1..Len(ids) |-> IF multi THEN fun_multi(ids[k]) ELSE fun_single(ids[k])]]

-----------------------------------------------------------------------------
(* flat_classification.py, generate_data from the table get_basic_df returns
   (line 78) to the Data record.  A table is the list of its rows. *)

\* df.iloc[mask], arr[mask]: the entries a boolean mask selects
select_mask(seq, mask) == enumerate_if_in(seq, where(mask))

\* mutation: the target array keeps all its rows
subset_target_array_all_rows(data, subset_mask) == data

\* subset_target_array(data, subset_mask)
subset_target_array(data, subset_mask) ==
    Flat_Target_Data([cols |-> data.arr.cols, rows |-> select_mask(data.arr.rows, subset_mask)],
                     data.uris, data.labels)

\* _values_to_target_data(values, skos_url, min_category_support):
\* [status, value, cache, net]; order is the iteration order of the set of
\* categories, answers what the label requests meet
_values_to_target_data(cache, n, values, skos_url, min_category_support, order, answers) ==
    LET failed(status, looked) ==
            [status |-> status, value |-> "none", cache |-> looked.cache, net |-> looked.net]
        return(data, looked, filtered) ==
            IF min_category_support # 0 /\ filtered.status # "ok"
            THEN failed(filtered.status, looked)
            ELSE [status |-> "ok", value |-> data, cache |-> looked.cache, net |-> looked.net]
        filter(enc, data, looked) ==
            return(data, looked,
                   subset_target_categories(data, min_support_mask(enc.arr, min_category_support)))
        build(enc, looked) ==
            IF looked.status # "ok" THEN failed(looked.status, looked)
            ELSE filter(enc, Flat_Target_Data(enc.arr, enc.uris, looked.labels), looked)
        lookup(enc, ids) ==
            build(enc, IF skos_url # "None"
                       THEN labels_from_skos(n, ids, "False", answers[<<"vocabulary">>])
                            @@ [cache |-> cache]
                       ELSE labels_from_uris(cache, n, ids, "False", answers) @@ [status |-> "ok"])
        encode(enc) == lookup(enc, [k \in 1..Len(enc.uris) |-> PyStr(enc.uris[k])])
    IN  encode(as_boolean_array(values, order))

\* x is None or len(x) == 0
empty_str(x) == x = PyNone \/ x.str = <<>>

\* np.logical_or / np.logical_and, elementwise
logical(keep_docs_that_contain, xs, ys) ==
    [i \in 1..Len(xs) |-> IF keep_docs_that_contain = "any_target" THEN xs[i] \/ ys[i]
                                                                    ELSE xs[i] /\ ys[i]]

\* reduce(logical_or | logical_and, (data.arr.sum(-1) > 0 for data in
\* target_data.values())) over a non-empty target_fields
kept_docs_of(keep_docs_that_contain, target_fields, target_data) ==
    LET has(k) == [i \in 1..Len(target_data[target_fields[k]].arr.rows) |->
                      sum_axis_m1(target_data[target_fields[k]].arr)[i] > 0]
        F[k \in 1..Len(target_fields)] ==
            IF k = 1 THEN has(1) ELSE logical(keep_docs_that_contain, F[k - 1], has(k))
    IN  F[Len(target_fields)]

\* the rows that have a title and a description and, with allowed_languages
\* given, no language outside it
prefilter(df, allowed_languages) ==
    LET with_text == select_mask(df, [i \in 1..Len(df) |->
                                          ~empty_str(df[i].description) /\ ~empty_str(df[i].title)])
    IN  IF allowed_languages = PyNone THEN with_text
        ELSE select_mask(with_text, [i \in 1..Len(with_text) |->
                                        with_text[i].language \ allowed_languages.elems = {}])

\* the targets in target_fields order, each encoded from its column;
\* [status, target_data, cache, net]
encode_targets(cache, n, df, args, orders, answers) ==
    LET add(prev, target, r) ==
            [status |-> r.status, cache |-> r.cache, net |-> r.net,
             target_data |-> IF r.status = "ok" THEN (target :> r.value) @@ prev.target_data
                                                ELSE prev.target_data]
        step(prev, target) ==
            IF prev.status # "ok" THEN prev
            ELSE add(prev, target,
                     _values_to_target_data(prev.cache, prev.net,
                                            [i \in 1..Len(df) |-> df[i][target]],
                                            IF target \in DOMAIN args.skos_urls
                                            THEN args.skos_urls[target] ELSE "None",
                                            args.min_category_support, orders[target], answers))
        F[k \in 0..Len(args.target_fields)] ==
            IF k = 0 THEN [status |-> "ok", target_data |-> <<>>, cache |-> cache, net |-> n]
            ELSE step(F[k - 1], args.target_fields[k])
    IN  F[Len(args.target_fields)]

\* generate_data: [status, encoded, result, cache, net]; encoded is
\* target_data before the document selection
generate_data(cache, n, table, args, orders, answers) ==
    LET data(enc, kept_docs, kept) ==
            [raw_texts |-> [i \in 1..Len(kept) |->
                               PyStr(kept[i].title.str \o <<"\n">> \o kept[i].description.str)],
             ids |-> [i \in 1..Len(kept) |-> kept[i].id],
             redaktion_arr |-> [i \in 1..Len(kept) |-> "Redaktionsbuffet" \in kept[i].collections],
             target_data |-> [t \in DOMAIN enc.target_data |->
                                 subset_target_array(enc.target_data[t], kept_docs)]]
        select(df, enc, kept_docs) ==
            [status |-> "ok", encoded |-> enc.target_data, cache |-> enc.cache, net |-> enc.net,
             result |-> data(enc, kept_docs, select_mask(df, kept_docs))]
        failed(status, enc) ==
            [status |-> status, encoded |-> enc.target_data, result |-> "none",
             cache |-> enc.cache, net |-> enc.net]
        reduce(df, enc) ==
            IF enc.status # "ok" THEN failed(enc.status, enc)
            ELSE IF args.target_fields = <<>> THEN failed("TypeError", enc)
            ELSE select(df, enc, kept_docs_of(args.keep_docs_that_contain, args.target_fields,
                                              enc.target_data))
        encode(df) == reduce(df, encode_targets(cache, n, df, args, orders, answers))
    IN  encode(prefilter(table, args.allowed_languages))

\* rows of the table: a German document of the Redaktionsbuffet with both
\* targets, one with category a only, an English one without categories,
\* and one with an empty title
Document(title, language, collections, t1, t2) ==
    [id |-> 0, title |-> title, description |-> PyStr(<<"D">>), language |-> language,
     collections |-> collections, t1 |-> PyFrozenSet(t1), t2 |-> PyFrozenSet(t2)]

Documents ==
    {Document(PyStr(<<"T">>), {"de"}, {"Redaktionsbuffet"}, {<<"a">>, <<"b">>}, {<<"x">>}),
     Document(PyStr(<<"T">>), {"de"}, {}, {<<"a">>}, {}),
     Document(PyStr(<<"T">>), {"en"}, {"Other"}, {}, {}),
     Document(PyStr(<<>>), {"de"}, {}, {<<"b">>}, {<<"x">>})}

\* tables of 1..MaxDocs rows; a row's id is its position
Tables ==
    {[i \in 1..Len(rows) |-> [rows[i] EXCEPT !.id = i]] :
        rows \in UNION {[1..d -> Documents] : d \in 1..MaxDocs}}

\* largest min_category_support passed; 0 stands for None as well
MaxSupport == 2

PipelineArgs ==
    [target_fields : {<<>>, <<"t1">>, <<"t1", "t2">>},
     skos_urls : {[t2 |-> "vocabulary"]},
     allowed_languages : {PyNone, PyFrozenSet({"de"})},
     keep_docs_that_contain : {"any_target", "all_targets"},
     min_category_support : 0..MaxSupport]

\* what the label requests of a pipeline run meet, by id
PipelineAnswers == [{<<"a">>, <<"b">>, <<"vocabulary">>} -> {"ok", "exception"}]

InitPipeline ==
    /\ pipe \in {[op |-> "generate_data", table |-> t, args |-> a, status |-> "none",
                  encoded |-> <<>>, result |-> "none"] : t \in Tables, a \in PipelineArgs}
    /\ flat = "none"
    /\ last = "none"
    /\ heap = <<>>
    /\ cur = "none"
    /\ rt = "none"
    /\ cached_uris = <<>>
    /\ net = <<>>
    /\ fs = <<>>

GenerateData ==
    /\ pipe.op = "generate_data"
    /\ pipe.status = "none"
    /\ LET df == prefilter(pipe.table, pipe.args.allowed_languages)
           column(t) == [i \in 1..Len(df) |-> df[i][t]]
           \* the ids and the vocabulary this run may request
           requested ==
               (IF pipe.args.target_fields # <<>> THEN seen_categories(column("t1")) ELSE {})
                   \cup (IF Len(pipe.args.target_fields) = 2 THEN {<<"vocabulary">>} ELSE {})
       IN  \E o1 \in IterationOrders(seen_categories(column("t1"))),
              o2 \in IterationOrders(seen_categories(column("t2"))),
              answers \in {f \in PipelineAnswers :
                              \A key \in DOMAIN f : key \notin requested => f[key] = "ok"} :
                \E r \in {generate_data(cached_uris, net, pipe.table, pipe.args,
                                        [t1 |-> o1, t2 |-> o2], answers)} :
                    /\ pipe' = [pipe EXCEPT !.status = r.status, !.encoded = r.encoded,
                                            !.result = r.result]
                    /\ cached_uris' = r.cache
                    /\ net' = r.net
    /\ UNCHANGED <<heap, cur, last, flat, rt, fs>>

NextPipeline == GenerateData

SpecPipeline == InitPipeline /\ [][NextPipeline]_vars

\* the table generate_data encodes: the rows left by the text and language
\* filters
EncodedRows == prefilter(pipe.table, pipe.args.allowed_languages)

\* C12 (as stated): a run with min_category_support = t > 0 produces target
\* records, the ones used for the document selection and the ones returned,
\* that hold only categories whose support before the selection is > t.
C12_OnlySupportedCategories ==
    (pipe.op = "generate_data" /\ pipe.status = "ok" /\ pipe.args.min_category_support > 0) =>
        \A t \in DOMAIN pipe.encoded :
            /\ \A j \in 1..pipe.encoded[t].arr.cols :
                  sum_axis_m2(pipe.encoded[t].arr)[j] > pipe.args.min_category_support
            /\ \A j \in 1..Len(pipe.result.target_data[t].uris) :
                  Cardinality({i \in 1..Len(EncodedRows) :
                                  pipe.result.target_data[t].uris[j] \in EncodedRows[i][t].elems})
                      > pipe.args.min_category_support

\* C13: a successful run keeps a document iff its membership row has a true
\* entry in some target (any_target) or in every target (all_targets); the
\* returned raw_texts, ids, redaktion_arr and every target's arr hold the kept
\* documents' rows in table order, and uris, labels and the number of columns
\* of every target are those from before the selection.
C13_DocumentSelection ==
    (pipe.op = "generate_data" /\ pipe.status = "ok") =>
        LET df == EncodedRows
            enc == pipe.encoded
            res == pipe.result
            Has(t, i) == \E j \in 1..enc[t].arr.cols : enc[t].arr.rows[i][j]
            Kept(i) == IF pipe.args.keep_docs_that_contain = "any_target"
                       THEN \E t \in DOMAIN enc : Has(t, i)
                       ELSE \A t \in DOMAIN enc : Has(t, i)
            kept == {i \in 1..Len(df) : Kept(i)}
        IN  /\ Len(res.raw_texts) = Cardinality(kept)
            /\ Len(res.ids) = Cardinality(kept)
            /\ Len(res.redaktion_arr) = Cardinality(kept)
            /\ DOMAIN res.target_data = DOMAIN enc
            /\ \A t \in DOMAIN enc :
                  /\ Len(res.target_data[t].arr.rows) = Cardinality(kept)
                  /\ res.target_data[t].arr.cols = enc[t].arr.cols
                  /\ res.target_data[t].uris = enc[t].uris
                  /\ res.target_data[t].labels = enc[t].labels
            /\ \A i \in kept :
                  LET k == Cardinality({h \in kept : h <= i})
                  IN  /\ res.ids[k] = df[i].id
                      /\ res.raw_texts[k] = PyStr(df[i].title.str \o <<"\n">> \o df[i].description.str)
                      /\ res.redaktion_arr[k] = ("Redaktionsbuffet" \in df[i].collections)
                      /\ \A t \in DOMAIN enc : res.target_data[t].arr.rows[k] = enc[t].arr.rows[i]

\* an all_targets run over three documents that keeps only the first, which
\* alone has a category in both targets
C13_Witness ==
    /\ pipe.op = "generate_data"
    /\ pipe.status = "ok"
    /\ pipe.args.keep_docs_that_contain = "all_targets"
    /\ pipe.args.target_fields = <<"t1", "t2">>
    /\ Len(EncodedRows) = 3
    /\ pipe.result.ids = <<1>>
    /\ pipe.result.target_data["t1"].arr.rows = <<<<TRUE, TRUE>>>>
    /\ pipe.encoded["t1"].arr.rows = <<<<TRUE, TRUE>>, <<TRUE, FALSE>>, <<FALSE, FALSE>>>>

-----------------------------------------------------------------------------
(* data.py, BoW_Data.from_processed_data: the vocabulary and the byte-sized
   word counts. *)

\* largest value of a numpy uint8
MaxUInt8 == 255

\* what a uint8 array holds after an integer is stored in it
store_uint8(v) == v % (MaxUInt8 + 1)

\* mutation: the count is stored as it is
min_count_unclamped(count) == count

\* min(count, 255)
min_count(count) == IF count < MaxUInt8 THEN count ELSE MaxUInt8

\* Counter(doc)[word]
Counter(doc, word) == Cardinality({k \in 1..Len(doc) : doc[k] = word})

\* doc_to_bow(doc) over the vocabulary words
doc_to_bow(doc, words) ==
    [k \in 1..Len(words) |-> store_uint8(min_count(Counter(doc, words[k])))]

\* reduce(op.or_, (set(doc) for doc in processed_texts), set())
token_set(processed_texts) ==
    UNION {{processed_texts[i][k] : k \in 1..Len(processed_texts[i])} : i \in 1..Len(processed_texts)}

\* from_processed_data(data): [status, value]; words is list(set), the
\* tokens in the order the set yields them; np.stack refuses an empty list
from_processed_data(data, words) ==
    IF data.processed_texts = <<>>
    THEN [status |-> "ValueError", value |-> "none"]
    ELSE [status |-> "ok",
          value |-> [raw_texts |-> data.raw_texts, ids |-> data.ids,
                     redaktion_arr |-> data.redaktion_arr, target_data |-> data.target_data,
                     processed_texts |-> data.processed_texts,
                     bows |-> [cols |-> Len(words),
                               rows |-> [i \in 1..Len(data.processed_texts) |->
                                            doc_to_bow(data.processed_texts[i], words)]],
                     id_to_word |-> [index \in 0..(Len(words) - 1) |-> words[index + 1]]]]

\* a document of c times the token cat, then d times the token dog
Repeated(c, d) == [k \in 1..(c + d) |-> IF k <= c THEN "cat" ELSE "dog"]

\* how often a token occurs in the documents of the runs
TokenCounts == {0, 1, 2, MaxUInt8, MaxUInt8 + 1, 300}

TokenizedDocs == {Repeated(c, d) : c \in TokenCounts, d \in {0, 1}} \cup {<<"dog", "cat", "dog">>}

\* most documents of a Processed_Data record in the runs
MaxTexts == 2

ProcessedData ==
    {[raw_texts |-> [i \in 1..Len(texts) |-> "r"], ids |-> [i \in 1..Len(texts) |-> i],
      redaktion_arr |-> [i \in 1..Len(texts) |-> FALSE], target_data |-> <<>>,
      processed_texts |-> texts] :
        texts \in UNION {[1..d -> TokenizedDocs] : d \in 0..MaxTexts}}

InitBoW ==
    /\ pipe \in {[op |-> "from_processed_data", data |-> d, runs |-> <<>>] : d \in ProcessedData}
    /\ flat = "none"
    /\ last = "none"
    /\ heap = <<>>
    /\ cur = "none"
    /\ rt = "none"
    /\ cached_uris = <<>>
    /\ net = <<>>
    /\ fs = <<>>

\* one run of from_processed_data, in a process of its own
FromProcessedData ==
    /\ pipe.op = "from_processed_data"
    /\ Len(pipe.runs) < MaxRuns
    /\ \E words \in IterationOrders(token_set(pipe.data.processed_texts)) :
          pipe' = [pipe EXCEPT !.runs = Append(@, from_processed_data(pipe.data, words))]
    /\ UNCHANGED <<heap, cur, last, flat, rt, cached_uris, net, fs>>

NextBoW == FromProcessedData

SpecBoW == InitBoW /\ [][NextBoW]_vars

\* C15: in every record from_processed_data returns, bows[i][k] is the number
\* of occurrences of id_to_word[k] in processed_texts[i], or 255 if that
\* number is 256 or more; every stored count lies in 0..255.
C15_ByteClampedCounts ==
    pipe.op = "from_processed_data" =>
        \A r \in 1..Len(pipe.runs) :
            pipe.runs[r].status = "ok" =>
                LET v == pipe.runs[r].value
                IN  \A i \in 1..Len(v.processed_texts) :
                        \A k \in DOMAIN v.id_to_word :
                            LET occurrences == Cardinality({p \in 1..Len(v.processed_texts[i]) :
                                                               v.processed_texts[i][p] = v.id_to_word[k]})
                                stored == v.bows.rows[i][k + 1]
                            IN  /\ stored \in 0..255
                                /\ occurrences <= 255 => stored = occurrences
                                /\ occurrences >= 256 => stored = 255

\* a run on a document with 300 times cat, stored as 255
C15_Witness ==
    /\ pipe.op = "from_processed_data"
    /\ Len(pipe.runs) >= 1
    /\ pipe.data.processed_texts = <<Repeated(300, 1)>>
    /\ pipe.runs[1].status = "ok"
    /\ \E k \in DOMAIN pipe.runs[1].value.id_to_word :
          /\ pipe.runs[1].value.id_to_word[k] = "cat"
          /\ pipe.runs[1].value.bows.rows[1][k + 1] = 255

\* C16 (as stated): id_to_word is a bijection from 0..n-1 onto the tokens of
\* all documents, and two runs on the same processed_texts return the same
\* id_to_word and the same bows.
C16_DeterministicVocabulary ==
    pipe.op = "from_processed_data" =>
        /\ \A r \in 1..Len(pipe.runs) :
              pipe.runs[r].status = "ok" =>
                  LET w == pipe.runs[r].value.id_to_word
                      n == Cardinality(token_set(pipe.data.processed_texts))
                  IN  /\ DOMAIN w = 0..(n - 1)
                      /\ {w[k] : k \in DOMAIN w} = token_set(pipe.data.processed_texts)
                      /\ \A k, l \in DOMAIN w : w[k] = w[l] => k = l
        /\ \A r, s \in 1..Len(pipe.runs) : pipe.runs[r] = pipe.runs[s]

-----------------------------------------------------------------------------
(* fetch.py: the loader _dicts_from_json_file.  A raw entry has the
   multi-valued field f (a list) and the scalar field g ("None" for None); a
   line of the file is a JSON object that holds the entry under _source, or
   an object without _source. *)

\* remap_table applied to one value
remap(remap_table, v) == IF v \in DOMAIN remap_table THEN remap_table[v] ELSE v

\* trans.with_changed_value(raw_entry, [field], drop_set, remap_table): the
\* value(s) at the field remapped, then those in drop_set removed
with_changed_value(raw_entry, field, drop_set, remap_table) ==
    LET old == raw_entry[field]
        remapped == [k \in 1..Len(old) |-> remap(remap_table, old[k])]
        kept == SelectSeq(remapped, LAMBDA v : v \notin drop_set)
        scalar == IF remap(remap_table, old) \in drop_set THEN "None" ELSE remap(remap_table, old)
    IN  [raw_entry EXCEPT ![field] = IF field = "f" THEN kept ELSE scalar]

\* the filter predicates a caller passes, by name
apply_filter(fun, raw_entry) ==
    IF fun = "f_has_new" THEN \E k \in 1..Len(raw_entry.f) : raw_entry.f[k] = "new"
    ELSE IF fun = "f_not_empty" THEN raw_entry.f # <<>>
    ELSE raw_entry.g = "de"

\* _dict_from_json_entry(raw_entry, columns) with columns = {"F": "f", "G": "g"}
_dict_from_json_entry(raw_entry) == [F |-> raw_entry.f, G |-> raw_entry.g]

\* raw_entry_generator(path, ".", "_source", max_len): [status, entries]; the
\* entries yielded until max_len is reached, the file ends or a line has no
\* map under the prefix
raw_entry_generator(lines, max_len) ==
    LET F[k \in 0..Len(lines)] ==
            IF k = 0 THEN [status |-> "ok", entries |-> <<>>, done |-> FALSE]
            ELSE LET prev == F[k - 1]
                 IN  IF prev.done THEN prev
                     ELSE IF max_len.kind = "int" /\ Len(prev.entries) >= max_len.int
                     THEN [prev EXCEPT !.done = TRUE]
                     ELSE IF "_source" \notin DOMAIN lines[k]
                     THEN [prev EXCEPT !.done = TRUE, !.status = "ValueError"]
                     ELSE [prev EXCEPT !.entries = Append(@, lines[k]._source)]
    IN  [status |-> F[Len(lines)].status, entries |-> F[Len(lines)].entries]

\* for field in modified_fields: raw_entry = trans.with_changed_value(...),
\* fields in the iteration order of the set; [status, entry]
normalise_entry(raw_entry, fields, dropped_values, remapped_values) ==
    LET F[k \in 0..Len(fields)] ==
            IF k = 0 THEN [status |-> "ok", entry |-> raw_entry]
            ELSE LET prev == F[k - 1]
                 IN  IF prev.status # "ok" THEN prev
                     ELSE IF fields[k] \notin DOMAIN dropped_values
                             \/ fields[k] \notin DOMAIN remapped_values
                     THEN [prev EXCEPT !.status = "KeyError"]
                     ELSE [prev EXCEPT !.entry = with_changed_value(
                               @, fields[k], dropped_values[fields[k]], remapped_values[fields[k]])]
    IN  F[Len(fields)]

\* mutation: the filters read the entry as it was read from the file
filter_input_raw(raw_entry, normalised) == raw_entry

\* the entry the filters are applied to
filter_input(raw_entry, normalised) == normalised

\* _dicts_from_json_file, consumed to its end: [status, rows, read]; fields
\* is modified_fields in iteration order
_dicts_from_json_file(lines, filters, dropped_values, remapped_values, max_len, fields) ==
    LET gen == raw_entry_generator(lines, max_len)
        F[k \in 0..Len(gen.entries)] ==
            IF k = 0 THEN [status |-> "ok", rows |-> <<>>]
            ELSE LET prev == F[k - 1]
                     n == normalise_entry(gen.entries[k], fields, dropped_values, remapped_values)
                 IN  IF prev.status # "ok" THEN prev
                     ELSE IF n.status # "ok" THEN [prev EXCEPT !.status = n.status]
                     ELSE IF \A fun \in filters : apply_filter(fun, filter_input(gen.entries[k], n.entry))
                     THEN [prev EXCEPT !.rows = Append(@, _dict_from_json_entry(n.entry))]
                     ELSE prev
        end == F[Len(gen.entries)]
    IN  [status |-> IF end.status # "ok" THEN end.status ELSE gen.status,
         rows |-> end.rows, read |-> gen.entries]

RawEntries ==
    {[f |-> <<"new">>, g |-> "de"], [f |-> <<"old">>, g |-> "de_DE"],
     [f |-> <<"junk">>, g |-> "None"], [f |-> <<"junk", "old">>, g |-> "de"]}

Lines == {[_source |-> e] : e \in RawEntries} \cup {[error |-> "not found"]}

\* most lines of a file
MaxLines == 2

DropTables == {<<>>, [f |-> {"junk"}], [f |-> {"junk"}, g |-> {}]}
RemapTables ==
    {<<>>, [g |-> [de_DE |-> "de"]], [f |-> [old |-> "new"], g |-> [de_DE |-> "de"]]}

LoaderCalls ==
    [lines : UNION {[1..n -> Lines] : n \in 0..MaxLines},
     filters : SUBSET {"f_has_new", "f_not_empty", "g_is_de"},
     dropped_values : DropTables,
     remapped_values : RemapTables,
     max_len : {PyNone, [kind |-> "int", int |-> 1]}]

InitLoader ==
    /\ pipe \in {[op |-> "_dicts_from_json_file", call |-> c, status |-> "none",
                  rows |-> <<>>, read |-> <<>>] : c \in LoaderCalls}
    /\ flat = "none"
    /\ last = "none"
    /\ heap = <<>>
    /\ cur = "none"
    /\ rt = "none"
    /\ cached_uris = <<>>
    /\ net = <<>>
    /\ fs = <<>>

DictsFromJsonFile ==
    /\ pipe.op = "_dicts_from_json_file"
    /\ pipe.status = "none"
    /\ LET c == pipe.call
       IN  \E fields \in IterationOrders(DOMAIN c.dropped_values \cup DOMAIN c.remapped_values) :
              LET r == _dicts_from_json_file(c.lines, c.filters, c.dropped_values,
                                             c.remapped_values, c.max_len, fields)
              IN  pipe' = [pipe EXCEPT !.status = r.status, !.rows = r.rows, !.read = r.read]
    /\ UNCHANGED <<heap, cur, last, flat, rt, cached_uris, net, fs>>

NextLoader == DictsFromJsonFile

SpecLoader == InitLoader /\ [][NextLoader]_vars

\* the value normalisation of every modified field, a table that lacks the
\* field contributing nothing
Normalised(entry, dropped_values, remapped_values) ==
    LET Drop(field) == IF field \in DOMAIN dropped_values THEN dropped_values[field] ELSE {}
        Remap(field, v) ==
            IF field \in DOMAIN remapped_values /\ v \in DOMAIN remapped_values[field]
            THEN remapped_values[field][v] ELSE v
        Modified(field) == field \in DOMAIN dropped_values \cup DOMAIN remapped_values
        f == SelectSeq([k \in 1..Len(entry.f) |-> Remap("f", entry.f[k])],
                       LAMBDA v : v \notin Drop("f"))
        g == IF Remap("g", entry.g) \in Drop("g") THEN "None" ELSE Remap("g", entry.g)
    IN  [f |-> IF Modified("f") THEN f ELSE entry.f, g |-> IF Modified("g") THEN g ELSE entry.g]

\* the rows the loader is to yield for the entries it read
ExpectedRows ==
    LET c == pipe.call
        F[k \in 0..Len(pipe.read)] ==
            IF k = 0 THEN <<>>
            ELSE LET e == Normalised(pipe.read[k], c.dropped_values, c.remapped_values)
                 IN  IF \A fun \in c.filters : apply_filter(fun, e)
                     THEN Append(F[k - 1], [F |-> e.f, G |-> e.g])
                     ELSE F[k - 1]
    IN  F[Len(pipe.read)]

\* the drop and the remap table name the same fields
TablesAgree == DOMAIN pipe.call.dropped_values = DOMAIN pipe.call.remapped_values

\* C17 (as stated): the rows the loader yields are, in input order, the
\* rows of exactly those entries read whose normalised form (every modified
\* field normalised) passes every filter.
C17_NormaliseThenFilter ==
    (pipe.op = "_dicts_from_json_file" /\ pipe.status # "none") => pipe.rows = ExpectedRows

\* the same for calls whose two tables name the same fields
LoaderOrderWhenTablesAgree ==
    (pipe.op = "_dicts_from_json_file" /\ pipe.status # "none" /\ TablesAgree) =>
        pipe.rows = ExpectedRows

-----------------------------------------------------------------------------
(* Calls of labels_from_uris and labels_from_skos within one process: the
   calls share cached_uris. *)

\* the ids of the calls: "", "a" and "b.html"
IdEmpty == <<>>
IdA == <<"a">>
IdBHtml == <<"b", ".html">>

\* ids a call can look up: the ids above and the characters of the strs
AllIds == {IdEmpty, IdA, IdBHtml, <<"b">>, <<".html">>}

\* the uris arguments: single-valued ones, with None, the empty id and a
\* repeated id, and multi-valued ones
SingleValued ==
    {<<>>, <<PyNone>>, <<PyStr(IdA)>>, <<PyStr(IdA), PyStr(IdBHtml)>>,
     <<PyNone, PyStr(IdEmpty), PyStr(IdA)>>, <<PyStr(IdBHtml), PyStr(IdBHtml)>>}
MultiValued ==
    {<<PyList(<<IdA, IdEmpty>>), PyNone>>, <<PyList(<<IdBHtml, IdA, IdBHtml>>)>>}

\* a list is not hashable, so it is passed with multi_value True or None only
UrisArguments(multi_value) ==
    IF multi_value = "False" THEN SingleValued ELSE SingleValued \cup MultiValued

\* the ids a call looks up
looked_up(uris, multi_value) ==
    IF detect_multi_value(uris, multi_value) = "True"
    THEN UNION {{Iterate(uris[k])[p] : p \in 1..Len(Iterate(uris[k]))} : k \in 1..Len(uris)}
    ELSE {uris[k].str : k \in {i \in 1..Len(uris) : uris[i].kind = "str"}}

InitLabels ==
    /\ cached_uris = <<>>
    /\ net = <<>>
    /\ last = [op |-> "none", n |-> 0]
    /\ pipe = "none"
    /\ flat = "none"
    /\ heap = <<>>
    /\ cur = "none"
    /\ rt = "none"
    /\ fs = <<>>

LabelsFromUris ==
    /\ last.n < MaxOps
    /\ \E multi_value \in {"None", "True", "False"} :
          \E uris \in UrisArguments(multi_value) :
             LET requested == (looked_up(uris, multi_value) \ DOMAIN cached_uris) \ {IdEmpty}
             IN  \E met \in [requested -> Outcomes] :
                    LET answers == [id \in AllIds |-> IF id \in requested THEN met[id] ELSE "ok"]
                        r == labels_from_uris(cached_uris, net, uris, multi_value, answers)
                    IN  /\ cached_uris' = r.cache
                        /\ net' = r.net
                        /\ last' = [op |-> "labels_from_uris", uris |-> uris,
                                    multi_value |-> multi_value, answers |-> answers,
                                    status |-> "ok", multi |-> r.multi, labels |-> r.labels,
                                    cache_before |-> cached_uris, net_before |-> net,
                                    n |-> last.n + 1]
    /\ UNCHANGED <<heap, cur, flat, rt, pipe, fs>>

LabelsFromSkos ==
    /\ last.n < MaxOps
    /\ \E multi_value \in {"None", "True", "False"}, answer \in Outcomes :
          \E ids \in UrisArguments(multi_value) :
             LET r == labels_from_skos(net, ids, multi_value, answer)
             IN  /\ net' = r.net
                 /\ last' = [op |-> "labels_from_skos", uris |-> ids,
                             multi_value |-> multi_value, answers |-> answer,
                             status |-> r.status, multi |-> r.multi, labels |-> r.labels,
                             cache_before |-> cached_uris, net_before |-> net,
                             n |-> last.n + 1]
    /\ UNCHANGED <<heap, cur, flat, rt, pipe, fs, cached_uris>>

NextLabels == LabelsFromUris \/ LabelsFromSkos

SpecLabels == InitLabels /\ [][NextLabels]_vars

\* the label the last labels_from_uris call is to return for id: the cached
\* one, else None for the empty id or a failed request, else the label of
\* the concept at the id's url
ExpectedLabel(id) ==
    IF id \in DOMAIN last.cache_before THEN last.cache_before[id]
    ELSE IF id = IdEmpty \/ last.answers[id] # "ok" THEN "None"
    ELSE IF request_url(id) = <<"a", ".json">> THEN "label a"
    ELSE "None"

\* C18 (as stated): called on ids (multi_value False or left to the
\* function), labels_from_uris returns a list as long as uris whose entry i is
\* the label of id i: None for a None entry, for the empty id and for an id
\* whose request failed, whatever the other ids met; labels_from_skos returns,
\* at the position of an id, its label in the vocabulary, None if the
\* vocabulary lacks it.
C18_LookupFailureIsLocal ==
    /\ (last.op = "labels_from_uris" /\ last.multi_value # "True") =>
          /\ Len(last.labels) = Len(last.uris)
          /\ \A i \in 1..Len(last.uris) :
                /\ last.uris[i] = PyNone => last.labels[i] \in {"None", PyNone}
                /\ last.uris[i].kind = "str" =>
                      /\ ~last.multi
                      /\ last.labels[i] = ExpectedLabel(last.uris[i].str)
    /\ (last.op = "labels_from_skos" /\ last.status = "ok" /\ last.multi_value # "True") =>
          /\ Len(last.labels) = Len(last.uris)
          /\ \A i \in 1..Len(last.uris) :
                /\ last.uris[i] = PyNone => last.labels[i] \in {"None", PyNone}
                /\ last.uris[i].kind = "str" =>
                      /\ ~last.multi
                      /\ last.labels[i] = IF last.uris[i].str = IdA THEN "label a" ELSE "None"

\* the same for calls that pass multi_value = False, as the pipeline does
LookupFailureIsLocalSingleValued ==
    last.op # "none" /\ last.multi_value = "False" => C18_LookupFailureIsLocal

\* the ids the last call looked up
LastLookedUp == looked_up(last.uris, last.multi_value)

\* C19: no id is requested more than once; an id that had a cache entry
\* before a labels_from_uris call, a None entry included, is requested by that
\* call no more, and the call leaves every entry the cache had as it was.
C19_LabelMemoization ==
    /\ \A key \in DOMAIN net : key.url # <<"vocabulary", ".json">> => net[key] <= 1
    /\ last.op = "labels_from_uris" =>
          /\ \A id \in DOMAIN last.cache_before :
                /\ id \in DOMAIN cached_uris
                /\ cached_uris[id] = last.cache_before[id]
                /\ RequestsFor(net, id) = RequestsFor(last.net_before, id)
          /\ \A i \in 1..Len(last.uris) :
                /\ (~last.multi /\ last.uris[i].kind = "str"
                        /\ last.uris[i].str \in DOMAIN last.cache_before) =>
                            last.labels[i] = last.cache_before[last.uris[i].str]
                /\ (last.multi /\ last.uris[i] # PyNone) =>
                        \A p \in 1..Len(Iterate(last.uris[i])) :
                            Iterate(last.uris[i])[p] \in DOMAIN last.cache_before =>
                                last.labels[i].items[p] = last.cache_before[Iterate(last.uris[i])[p]]

\* a second call that looks up the id a, whose request failed in the first:
\* it returns the cached None and a has still been requested once
C19_Witness ==
    /\ last.op = "labels_from_uris"
    /\ last.n = 2
    /\ last.uris = <<PyStr(IdA)>>
    /\ last.multi_value = "False"
    /\ IdA \in DOMAIN last.cache_before
    /\ last.cache_before[IdA] = "None"
    /\ last.labels = <<"None">>
    /\ RequestsFor(net, IdA) = 1

-----------------------------------------------------------------------------
(* fetch.py: fetch and _download.  fs is the output directory, a function
   from file name to content [form, version]; a file name is the sequence of
   its stem and suffixes; net.version is the dump the server holds. *)

\* ".gz" == str(download_file)[-3:]
ends_with_gz(name) == Len(name) > 0 /\ name[Len(name)] = ".gz"

\* download_file.with_suffix(download_file.suffix[:-3])
without_gz(name) == SubSeq(name, 1, Len(name) - 1)

\* the output file of a call
output_path(args) ==
    IF args.output_file = PyNone
    THEN IF ends_with_gz(args.target_file) THEN without_gz(args.target_file) ELSE args.target_file
    ELSE args.output_file.str

\* what the server holds at base_url/target_file
served(target_file, version) ==
    [form |-> IF ends_with_gz(target_file) THEN "gz" ELSE "plain", version |-> version]

\* _download(url, target_path): [status, fs]; urlopen may fail before the
\* file is opened, the copy may fail after part of it was written
_download(files, target_path, content, outcome) ==
    IF outcome = "urlopen_fails" THEN [status |-> "URLError", fs |-> files]
    ELSE IF outcome = "copy_fails"
    THEN [status |-> "OSError", fs |-> (target_path :> [content EXCEPT !.form = "partial"]) @@ files]
    ELSE [status |-> "ok", fs |-> (target_path :> content) @@ files]

\* gzip.open(download_file) copied to open(output_file, "wb"): [status, fs];
\* the output file is created before the first read
decompress(files, download_file, output_file) ==
    LET source == files[download_file]
    IN  IF source.form = "gz"
        THEN [status |-> "ok", fs |-> (output_file :> [source EXCEPT !.form = "plain"]) @@ files]
        ELSE IF source.form = "partial"
        THEN [status |-> "EOFError", fs |-> (output_file :> source) @@ files]
        ELSE [status |-> "BadGzipFile",
              fs |-> (output_file :> [source EXCEPT !.form = "empty"]) @@ files]

\* path.unlink()
unlink(files, path) == [p \in DOMAIN files \ {path} |-> files[p]]

\* mutation: the output file is never taken as present
skip_download_never(skip_if_exists, exists) == FALSE

\* skip_if_exists and path.exists()
skip_download(skip_if_exists, exists) == skip_if_exists /\ exists

\* fetch(...): [status, ret, fs, did]; did tells which steps were run
fetch(files, version, args, outcome) ==
    LET download_file == args.target_file
        output_file == output_path(args)
        downloads == ~skip_download(args.skip_if_exists, download_file \in DOMAIN files)
        got == IF downloads
               THEN _download(files, download_file, served(download_file, version), outcome)
               ELSE [status |-> "ok", fs |-> files]
        unpacked == decompress(got.fs, download_file, output_file)
        deletes == unpacked.status = "ok" /\ args.delete_compressed_archive
    IN  IF skip_download(args.skip_if_exists, output_file \in DOMAIN files)
        THEN [status |-> "ok", ret |-> output_file, fs |-> files,
              did |-> [download |-> FALSE, decompress |-> FALSE, delete |-> FALSE]]
        ELSE IF got.status # "ok"
        THEN [status |-> got.status, ret |-> <<>>, fs |-> got.fs,
              did |-> [download |-> downloads, decompress |-> FALSE, delete |-> FALSE]]
        ELSE IF output_file # download_file
        THEN [status |-> unpacked.status,
              ret |-> IF unpacked.status = "ok" THEN output_file ELSE <<>>,
              fs |-> IF deletes THEN unlink(unpacked.fs, download_file) ELSE unpacked.fs,
              did |-> [download |-> downloads, decompress |-> TRUE, delete |-> deletes]]
        ELSE [status |-> "ok", ret |-> output_file, fs |-> got.fs,
              did |-> [download |-> downloads, decompress |-> FALSE, delete |-> FALSE]]

\* most dumps the server publishes
MaxVersion == 2

FetchArgs ==
    [target_file : {<<"dump", ".json", ".gz">>, <<"dump", ".json">>},
     output_file : {PyNone, PyStr(<<"out", ".json">>)},
     skip_if_exists : BOOLEAN,
     delete_compressed_archive : BOOLEAN]

InitFetch ==
    /\ fs = <<>>
    /\ net = [version |-> 1]
    /\ last = [op |-> "none", args |-> "none", status |-> "none", n |-> 0]
    /\ pipe = "none"
    /\ flat = "none"
    /\ heap = <<>>
    /\ cur = "none"
    /\ rt = "none"
    /\ cached_uris = <<>>

Fetch ==
    /\ last.n < MaxOps
    /\ \E args \in FetchArgs, outcome \in {"ok", "urlopen_fails", "copy_fails"} :
          LET r == fetch(fs, net.version, args, outcome)
          IN  /\ fs' = r.fs
              /\ last' = [op |-> "fetch", args |-> args, status |-> r.status, ret |-> r.ret,
                          did |-> r.did, fs_before |-> fs, version |-> net.version,
                          prev |-> [args |-> last.args, status |-> last.status],
                          n |-> last.n + 1]
    /\ UNCHANGED <<heap, cur, flat, rt, pipe, cached_uris, net>>

\* the server publishes a new dump
Publish ==
    /\ net.version < MaxVersion
    /\ net' = [net EXCEPT !.version = @ + 1]
    /\ UNCHANGED <<heap, cur, last, flat, rt, pipe, cached_uris, fs>>

NextFetch == Fetch \/ Publish

SpecFetch == InitFetch /\ [][NextFetch]_vars

\* C20: a call with skip_if_exists whose output file exists downloads,
\* decompresses and deletes nothing, changes no file and returns the output
\* path; so a call that follows a returned call with the same arguments
\* downloads nothing and leaves the files as they were; a call without
\* skip_if_exists always downloads, and when it returns the output file holds
\* the dump the server held at the call, as does the downloaded file if it
\* is kept.
C20_FetchIdempotent ==
    last.op = "fetch" =>
        LET out == output_path(last.args)
            skipped == /\ last.status = "ok"
                       /\ last.ret = out
                       /\ ~last.did.download /\ ~last.did.decompress /\ ~last.did.delete
                       /\ fs = last.fs_before
        IN  /\ (last.args.skip_if_exists /\ out \in DOMAIN last.fs_before) => skipped
            /\ (last.args.skip_if_exists /\ last.n >= 2 /\ last.prev.args = last.args
                    /\ last.prev.status = "ok") => skipped
            /\ ~last.args.skip_if_exists =>
                  /\ last.did.download
                  /\ last.status = "ok" =>
                        /\ out \in DOMAIN fs
                        /\ fs[out].version = last.version
                        /\ last.args.target_file \in DOMAIN fs =>
                              fs[last.args.target_file].version = last.version

\* a second call with the same arguments after the first returned and the
\* server published a new dump: nothing is downloaded, the old dump stays
C20_Witness ==
    /\ last.op = "fetch"
    /\ last.n = 2
    /\ last.args.skip_if_exists
    /\ last.args.target_file = <<"dump", ".json", ".gz">>
    /\ last.prev.args = last.args
    /\ last.prev.status = "ok"
    /\ net.version = 2
    /\ ~last.did.download
    /\ last.ret \in DOMAIN fs
    /\ fs[last.ret].version = 1

\* the call went past the test of the output file and its download, if any,
\* succeeded: it came to the decompression test of fetch
ReachedDecompression ==
    /\ ~skip_download(last.args.skip_if_exists, output_path(last.args) \in DOMAIN last.fs_before)
    /\ ~(last.status # "ok" /\ ~last.did.decompress)

\* C22: a call that comes to the decompression test decompresses iff the
\* target file name ends in ".gz", and deletes the archive only then (and
\* does so when delete_compressed_archive is set and the decompression went
\* through); for a target that is not gzipped the call returns the output
\* path, which names an existing file that holds the downloaded content,
\* whatever output_file is.
C22_DecompressIffGzipped ==
    (last.op = "fetch" /\ ReachedDecompression) =>
        LET gz == ends_with_gz(last.args.target_file)
            out == output_path(last.args)
        IN  /\ last.did.decompress <=> gz
            /\ last.did.delete => gz
            /\ (gz /\ last.args.delete_compressed_archive /\ last.status = "ok") => last.did.delete
            /\ ~gz =>
                  /\ last.status = "ok"
                  /\ last.ret = out
                  /\ out \in DOMAIN fs
                  /\ last.did.download => fs[out] = served(last.args.target_file, last.version)

\* what the code does instead: it decompresses iff the output file differs
\* from the downloaded file
DecompressIffOutputDiffers ==
    (last.op = "fetch" /\ ReachedDecompression) =>
        (last.did.decompress <=> output_path(last.args) # last.args.target_file)

-----------------------------------------------------------------------------
(* The loader on drop and remap tables that need not name the same fields. *)

\* every line of the file holds a map under the prefix
WellFormedFile ==
    \A k \in 1..Len(pipe.call.lines) : "_source" \in DOMAIN pipe.call.lines[k]

\* C23: for any drop and remap tables, also when a field has an entry in
\* only one of them, the loader completes without error on a well-formed
\* file and every row it yields has each field of the union of the tables'
\* keys normalised, a table without the field contributing nothing.
C23_UnionOfTablesNormalised ==
    (pipe.op = "_dicts_from_json_file" /\ pipe.status # "none" /\ WellFormedFile) =>
        /\ pipe.status = "ok"
        /\ pipe.rows = ExpectedRows

\* what the code does instead: it fails with KeyError as soon as an entry is
\* read while a field is named in only one table, and only then
KeyErrorIffTablesDisagree ==
    (pipe.op = "_dicts_from_json_file" /\ pipe.status # "none" /\ WellFormedFile) =>
        (pipe.status = "KeyError" <=> (~TablesAgree /\ pipe.read # <<>>))

====
